---- MODULE Spec2Model ----
(***************************************************************************)
(* State-synchronisation engine of the sentiment dashboard: the snapshot   *)
(* fetches, the WebSocket stream and the React state slices (posts, stats, *)
(* trendData, status) of the three Dashboard components of the repository: *)
(*   "sequenced"     frontend/src/components/DistributionChart.jsx:71-223  *)
(*                   (awaits Promise.all, then connectWebSocket)           *)
(*   "Dashboard.jsx" frontend/src/Dashboard.jsx  (two effects, /stats)     *)
(*   "part_000"      unnamed/part_000            (two effects, /distribution)*)
(* Every action is one event-loop callback, run to completion.             *)
(***************************************************************************)
EXTENDS Integers, Sequences, FiniteSets, TLC

VARIABLES
  impl,        \* which Dashboard component is mounted
  posts,       \* useState([])  : the live feed, newest first
  stats,       \* useState({total..., distribution: {}})
  trendData,   \* useState([])  : the trend series, chronological
  status,      \* useState("connecting" | "disconnected")
  postsFetch,  \* promise of the posts fetch: [state, value]
  distFetch,   \* promise of the distribution/stats fetch: [state, value]
  ws,          \* the WebSocket: "none" or its readyState
  torn,        \* the effect cleanup has run
  crashed,     \* a state updater threw while rendering
  delivered    \* the frames the channel has delivered, in arrival order

vars == <<impl, posts, stats, trendData, status, postsFetch, distFetch, ws,
          torn, crashed, delivered>>

(***************************************************************************)
(* Bounds of the model.                                                    *)
(***************************************************************************)
MaxMsgs == 2        \* frames delivered in one session of Spec
MaxPush == 60       \* new_post frames of one run of SpecFeed
MaxTicks == 25      \* metrics_update frames of one run of SpecTrend

(***************************************************************************)
(* Program constants.                                                      *)
(***************************************************************************)
FeedCapacity == 50  \* .slice(0, 50)
TrendCapacity == 20 \* .slice(-20)

Sequenced == "sequenced"
DashboardJsx == "Dashboard.jsx"
Part000 == "part_000"
Impls == {Sequenced, DashboardJsx, Part000}
TwoEffect == {DashboardJsx, Part000}

(***************************************************************************)
(* JavaScript values.  An absent numeric property reads as undefined,      *)
(* written NoNum; an absent string property reads as undefined, and used   *)
(* as a computed key it becomes the string "undefined".                    *)
(***************************************************************************)
NoNum == -1
Undefined == "undefined"

\* x || 0 on a number or undefined
OrZero(x) == IF x = NoNum THEN 0 ELSE x

\* a || b on strings (undefined and "" are falsy)
OrStr(a, b) == IF a = Undefined THEN b ELSE a

Min(a, b) == IF a < b THEN a ELSE b

\* s.slice(0, n)
SliceFirst(s, n) == SubSeq(s, 1, Min(Len(s), n))

\* s.slice(-n)
SliceLast(s, n) == IF Len(s) <= n THEN s ELSE SubSeq(s, Len(s) - n + 1, Len(s))

(***************************************************************************)
(* Payloads.                                                               *)
(***************************************************************************)
Labels == {"positive", "negative", "neutral"}
Keys == Labels \cup {"mixed", Undefined}

NoSentiment ==
  [present |-> FALSE, label |-> Undefined, sentiment_label |-> Undefined,
   confidence_score |-> NoNum]

Sentiment(l, sl, c) ==
  [present |-> TRUE, label |-> l, sentiment_label |-> sl, confidence_score |-> c]

\* the sentiment objects a new_post frame may carry
SentimentShapes ==
  { Sentiment(Undefined, "negative", 90),   \* {sentiment_label: "negative"}
    Sentiment("positive", Undefined, 80),   \* {label: "positive"}
    Sentiment(Undefined, "mixed", 50),      \* an unrecognised label string
    Sentiment(Undefined, Undefined, NoNum), \* {}
    NoSentiment }                           \* no sentiment field

\* the k-th newest post of the snapshot; the REST API uses the key label
ApiPost(k) == [id |-> 1 - k, sentiment |-> Sentiment("positive", Undefined, 70)]

\* GET /api/posts?limit=20 -> { posts: [...] }, or a body without posts
PostsBody(hasPosts, n) == [hasPosts |-> hasPosts, posts |-> [k \in 1..n |-> ApiPost(k)]]

\* the server decides how many posts the body carries
SnapshotSizes == {2, FeedCapacity + 1}

PostsResponses ==
  {PostsBody(TRUE, n) : n \in SnapshotSizes} \cup {PostsBody(FALSE, 0)}

NoCounts == [k \in Keys |-> NoNum]

SnapshotCounts == [k \in Keys |-> IF k = "positive" THEN 5 ELSE NoNum]

\* GET distribution summary -> { total | total_posts, distribution }
DistBody(total, total_posts, hasDist) ==
  [total |-> total, total_posts |-> total_posts, hasDist |-> hasDist,
   distribution |-> IF hasDist THEN SnapshotCounts ELSE NoCounts]

DistResponses ==
  { DistBody(5, NoNum, TRUE),      \* {total: 5, distribution: {positive: 5}}
    DistBody(NoNum, 5, TRUE),      \* {total_posts: 5, distribution: {...}}
    DistBody(5, NoNum, FALSE) }    \* {total: 5}

\* a promise: pending, resolved with a body, or rejected
Promise(state, body) == [state |-> state, value |-> body]

NoPostsBody == PostsBody(FALSE, 0)
NoDistBody == DistBody(NoNum, NoNum, FALSE)

(***************************************************************************)
(* Frames of the WebSocket.  A frame is text; valid = JSON.parse succeeds. *)
(* The n-th frame delivered carries n as its post id and 30 n seconds as   *)
(* its timestamp, so that arrival order is visible in the state.           *)
(***************************************************************************)
NoLastMinute == [present |-> FALSE, positive |-> NoNum, negative |-> NoNum, neutral |-> NoNum]

NoData ==
  [id |-> NoNum, sentiment |-> NoSentiment, timestamp |-> NoNum,
   positive |-> NoNum, negative |-> NoNum, neutral |-> NoNum,
   last_minute |-> NoLastMinute]

Frame(valid, type, timestamp, data) ==
  [valid |-> valid, type |-> type, timestamp |-> timestamp, data |-> data]

\* { type: "new_post", data: { id, sentiment } }
NewPostFrame(n, s) ==
  Frame(TRUE, "new_post", NoNum, [NoData EXCEPT !.id = n, !.sentiment = s])

MetricsShapes == {"contract", "last_minute", "data_timestamp"}

\* { type: "metrics_update", ... } in the three shapes found in the repository:
\*   contract        { data: {positive, negative, neutral}, timestamp }
\*   last_minute     { data: {last_minute: {positive, negative, neutral}}, timestamp }
\*   data_timestamp  { data: {timestamp, positive, negative, neutral} }
MetricsFrame(n, shape) ==
  Frame(TRUE, "metrics_update",
        IF shape = "data_timestamp" THEN NoNum ELSE 30 * n,
        [NoData EXCEPT
           !.timestamp = IF shape = "data_timestamp" THEN 30 * n ELSE NoNum,
           !.positive = IF shape = "last_minute" THEN NoNum ELSE n,
           !.negative = IF shape = "last_minute" THEN NoNum ELSE n + 1,
           !.neutral = IF shape = "last_minute" THEN NoNum ELSE n + 2,
           !.last_minute = IF shape = "last_minute"
                             THEN [present |-> TRUE, positive |-> n,
                                   negative |-> n + 1, neutral |-> n + 2]
                             ELSE NoLastMinute])

\* a message of some other type
OtherFrame(n) == Frame(TRUE, "alert", 30 * n, NoData)

\* text that JSON.parse rejects
MalformedFrame(n) == Frame(FALSE, Undefined, NoNum, NoData)

Frames(n) ==
  {NewPostFrame(n, s) : s \in SentimentShapes}
    \cup {MetricsFrame(n, sh) : sh \in MetricsShapes}
    \cup {OtherFrame(n), MalformedFrame(n)}

(***************************************************************************)
(* The reducers of the message handlers.                                   *)
(***************************************************************************)
\* (mutant) the new post is put last, so that the slice drops it from a full feed
PushPostLast(prev, newPost) == SliceFirst(prev \o <<newPost>>, FeedCapacity)

\* setPosts((prev) => [newPost, ...prev].slice(0, 50))
PushPost(prev, newPost) == SliceFirst(<<newPost>> \o prev, FeedCapacity)

\* setPosts(postsData.posts || [])
SeedPosts(body) == IF body.hasPosts THEN body.posts ELSE <<>>

\* the label the feed renders:
\*   post.sentiment?.label || post.sentiment?.sentiment_label || "neutral"
FeedLabel(post) == OrStr(OrStr(post.sentiment.label, post.sentiment.sentiment_label), "neutral")

\* the key under which the new_post handler counts the post:
\*   sequenced : newPost.sentiment?.sentiment_label || "neutral"
\*   two-effect: newPost.sentiment.sentiment_label
CountLabel(i, newPost) ==
  IF i = Sequenced
    THEN OrStr(newPost.sentiment.sentiment_label, "neutral")
    ELSE newPost.sentiment.sentiment_label

\* newPost.sentiment.sentiment_label on a post without sentiment: TypeError
Throws(i, frame) ==
  /\ i \in TwoEffect
  /\ frame.valid
  /\ frame.type = "new_post"
  /\ ~frame.data.sentiment.present

\* (mutant) the new mapping without the spread of the previous one:
\* { [label]: (prev.distribution?.[label] || 0) + 1 }
IncrementCountWithoutSpread(counts, label) ==
  [k \in DOMAIN counts |-> IF k = label THEN OrZero(counts[k]) + 1 ELSE NoNum]

\* { ...prev.distribution, [label]: (prev.distribution?.[label] || 0) + 1 }
IncrementCount(counts, label) == [counts EXCEPT ![label] = OrZero(counts[label]) + 1]

\* (mutant) the updater increments the count but not the total
CountPostKeepsTotal(i, prev, newPost) ==
  [prev EXCEPT !.hasDist = TRUE,
               !.distribution = IncrementCount(prev.distribution, CountLabel(i, newPost))]

\* setStats((prev) => ...) of the new_post handler
CountPost(i, prev, newPost) ==
  IF i = Sequenced
    THEN [prev EXCEPT !.total = OrZero(prev.total) + 1,
                      !.hasDist = TRUE,
                      !.distribution = IncrementCount(prev.distribution, CountLabel(i, newPost))]
    ELSE [total |-> NoNum,
          total_posts |-> OrZero(prev.total_posts) + 1,
          hasDist |-> TRUE,
          distribution |-> IncrementCount(prev.distribution, CountLabel(i, newPost))]

\* setStats of the snapshot:
\*   sequenced     : setStats(distData)
\*   Dashboard.jsx : total_posts: data.total_posts !== undefined ? data.total_posts : data.total
\*   part_000      : total_posts: data.total
\* and in both two-effect components distribution: data.distribution || {}
SeedStats(i, body) ==
  IF i = Sequenced
    THEN body
    ELSE [total |-> NoNum,
          total_posts |-> IF i = DashboardJsx
                            THEN (IF body.total_posts # NoNum THEN body.total_posts ELSE body.total)
                            ELSE body.total,
          hasDist |-> TRUE,
          distribution |-> body.distribution]

\* DistributionChart: Object.keys(distribution).map((key) => ({name, value:
\* distribution[key], color})).filter((item) => item.value > 0): one slice per
\* key of the mapping whose count is positive (name is the key, capitalised).
\* The slices come in the mapping's key order, which the model does not keep,
\* so they are given as a set
ChartSlices(distribution) ==
  {[name |-> k, value |-> distribution[k]] :
     k \in {key \in DOMAIN distribution : distribution[key] > 0}}

\* the total the summary card shows: stats.total (sequenced), stats.total_posts
DisplayedTotal(i, s) == OrZero(IF i = Sequenced THEN s.total ELSE s.total_posts)

\* new Date(ts).toLocaleTimeString(...): minutes of the day with
\* {hour: "2-digit", minute: "2-digit"}, seconds of the day without options;
\* new Date(undefined) is an Invalid Date
InvalidDate == NoNum
TimeHM(ts) == IF ts = NoNum THEN InvalidDate ELSE (ts \div 60) % 1440
TimeHMS(ts) == IF ts = NoNum THEN InvalidDate ELSE ts % 86400

Point(time, positive, negative, neutral, sentiment) ==
  [time |-> time, positive |-> positive, negative |-> negative,
   neutral |-> neutral, sentiment |-> sentiment]

\* the point the metrics_update handler builds:
\*   sequenced: { time, ...message.data.last_minute }, time from message.timestamp
\*   part_000 : { time, positive: data.positive, ... }, time from data.timestamp
MetricsPoint(i, frame) ==
  IF i = Sequenced
    THEN Point(TimeHM(frame.timestamp), frame.data.last_minute.positive,
               frame.data.last_minute.negative, frame.data.last_minute.neutral, NoNum)
    ELSE Point(TimeHMS(frame.data.timestamp), frame.data.positive,
               frame.data.negative, frame.data.neutral, NoNum)

\* Dashboard.jsx pushes one point per new_post:
\*   { time: new Date().toLocaleTimeString(), sentiment: confidence_score }
\* (the clock reads 30 n seconds when the n-th frame arrives)
ConfidencePoint(frame) ==
  Point(TimeHMS(30 * frame.data.id), NoNum, NoNum, NoNum,
        frame.data.sentiment.confidence_score)

\* (mutant) slice(0, 20) in place of slice(-20): keeps the oldest points
PushPointKeepsOldest(prev, point) == SliceFirst(Append(prev, point), TrendCapacity)

\* setTrendData((prev) => [...prev, point].slice(-20))
PushPoint(prev, point) == SliceLast(Append(prev, point), TrendCapacity)

\* (mutant) the handler pushes message.data without looking at message.type
NextPostsAnyType(i, prev, frame) == PushPost(prev, frame.data)

\* the feed after the handler of one parsed message
NextPosts(i, prev, frame) ==
  IF frame.type = "new_post" THEN PushPost(prev, frame.data) ELSE prev

\* (mutant) the handler returns before setStats for a post without sentiment
NextStatsSkipsUnlabelled(i, prev, frame) ==
  IF frame.type = "new_post" /\ frame.data.sentiment.present
    THEN CountPost(i, prev, frame.data)
    ELSE prev

\* the distribution after the handler of one parsed message
NextStats(i, prev, frame) ==
  IF frame.type = "new_post" THEN CountPost(i, prev, frame.data) ELSE prev

\* (mutant) every component pushes a point per new_post, as Dashboard.jsx does
NextTrendPerPost(i, prev, frame) ==
  CASE frame.type = "new_post" -> PushPoint(prev, ConfidencePoint(frame))
    [] frame.type = "metrics_update" /\ i # DashboardJsx -> PushPoint(prev, MetricsPoint(i, frame))
    [] OTHER -> prev

\* the trend series after the handler of one parsed message
NextTrend(i, prev, frame) ==
  CASE frame.type = "new_post" /\ i = DashboardJsx -> PushPoint(prev, ConfidencePoint(frame))
    [] frame.type = "metrics_update" /\ i # DashboardJsx -> PushPoint(prev, MetricsPoint(i, frame))
    [] OTHER -> prev

(***************************************************************************)
(* The component.                                                          *)
(***************************************************************************)
\* useState initial values: the sequenced component keys the total as total
\* and starts connecting; the two-effect ones key it as total_posts and start
\* disconnected
InitialStats(i) ==
  [total |-> IF i = Sequenced THEN 0 ELSE NoNum,
   total_posts |-> IF i = Sequenced THEN NoNum ELSE 0,
   hasDist |-> TRUE,
   distribution |-> NoCounts]

\* (mutant) the sequenced component starts disconnected, as the others do
InitialStatusDisconnected(i) == "disconnected"

InitialStatus(i) == IF i = Sequenced THEN "connecting" ELSE "disconnected"

\* (mutant) the sequenced component opens its socket at mount as well
InitialSocketEager(i) == "CONNECTING"

\* new WebSocket(WS_URL): in the second effect of the two-effect components,
\* at mount; in the sequenced one only after the awaited snapshot
InitialSocket(i) == IF i = Sequenced THEN "none" ELSE "CONNECTING"

Mount(i) ==
  /\ impl = i
  /\ posts = <<>>
  /\ stats = InitialStats(i)
  /\ trendData = <<>>
  /\ status = InitialStatus(i)
  /\ postsFetch = Promise("pending", NoPostsBody)
  /\ distFetch = Promise("pending", NoDistBody)
  /\ ws = InitialSocket(i)
  /\ torn = FALSE
  /\ crashed = FALSE
  /\ delivered = <<>>

Init == \E i \in Impls : Mount(i)

\* a state setter called after the component has unmounted changes nothing
Mounted == ~torn

\* the four setters, as one commit
SetState(p, s, t, st) ==
  /\ posts' = IF Mounted THEN p ELSE posts
  /\ stats' = IF Mounted THEN s ELSE stats
  /\ trendData' = IF Mounted THEN t ELSE trendData
  /\ status' = IF Mounted THEN st ELSE status

\* ws.close(): a socket that is connecting or open starts closing
CloseSocket(w) == IF w \in {"CONNECTING", "OPEN"} THEN "CLOSING" ELSE w

\* (mutant) the continuation connects without writing the snapshot
ConnectWithoutSeed(postsBody, distBody) ==
  /\ UNCHANGED <<posts, stats, trendData, status>>
  /\ ws' = "CONNECTING"

\* the continuation of fetchDataAndConnect after the await: seed both slices,
\* then connectWebSocket(...)
SeedAndConnect(postsBody, distBody) ==
  /\ SetState(SeedPosts(postsBody), SeedStats(Sequenced, distBody), trendData, status)
  /\ ws' = "CONNECTING"

\* (mutant) the catch block without its return: falls through to the connect
SnapshotFailedFallsThrough ==
  /\ SetState(posts, stats, trendData, "disconnected")
  /\ ws' = "CONNECTING"

\* (mutant) the catch block only logs, as the two-effect components do
SnapshotFailedOnlyLogs == UNCHANGED <<posts, stats, trendData, status, ws>>

\* the catch block of fetchDataAndConnect: setStatus("disconnected"); return
SnapshotFailed ==
  /\ SetState(posts, stats, trendData, "disconnected")
  /\ UNCHANGED ws

\* the posts fetch resolves with a JSON body
PostsFetchResolve ==
  \E body \in PostsResponses :
    /\ postsFetch.state = "pending"
    /\ postsFetch' = Promise("resolved", body)
    /\ IF impl = Sequenced
         THEN IF distFetch.state = "resolved"
                THEN SeedAndConnect(body, distFetch.value)
                ELSE UNCHANGED <<posts, stats, trendData, status, ws>>
         ELSE /\ SetState(SeedPosts(body), stats, trendData, status)
              /\ UNCHANGED ws
    /\ UNCHANGED <<impl, distFetch, torn, crashed, delivered>>

\* the distribution fetch resolves with a JSON body
DistFetchResolve ==
  \E body \in DistResponses :
    /\ distFetch.state = "pending"
    /\ distFetch' = Promise("resolved", body)
    /\ IF impl = Sequenced
         THEN IF postsFetch.state = "resolved"
                THEN SeedAndConnect(postsFetch.value, body)
                ELSE UNCHANGED <<posts, stats, trendData, status, ws>>
         ELSE /\ SetState(posts, SeedStats(impl, body), trendData, status)
              /\ UNCHANGED ws
    /\ UNCHANGED <<impl, postsFetch, torn, crashed, delivered>>

\* the posts fetch rejects (network failure, or a body that is not JSON).
\* Promise.all rejects with the first rejection; the two-effect components
\* only log it
PostsFetchReject ==
  /\ postsFetch.state = "pending"
  /\ postsFetch' = Promise("rejected", NoPostsBody)
  /\ IF impl = Sequenced /\ distFetch.state # "rejected"
       THEN SnapshotFailed
       ELSE UNCHANGED <<posts, stats, trendData, status, ws>>
  /\ UNCHANGED <<impl, distFetch, torn, crashed, delivered>>

\* the distribution fetch rejects
DistFetchReject ==
  /\ distFetch.state = "pending"
  /\ distFetch' = Promise("rejected", NoDistBody)
  /\ IF impl = Sequenced /\ postsFetch.state # "rejected"
       THEN SnapshotFailed
       ELSE UNCHANGED <<posts, stats, trendData, status, ws>>
  /\ UNCHANGED <<impl, postsFetch, torn, crashed, delivered>>

\* ws.onopen
WsOpen ==
  /\ ws = "CONNECTING"
  /\ ws' = "OPEN"
  /\ SetState(posts, stats, trendData, "connected")
  /\ UNCHANGED <<impl, postsFetch, distFetch, torn, crashed, delivered>>

\* (mutant) a parse failure is handled as a connection error
ParseFailureDisconnects ==
  /\ SetState(posts, stats, trendData, "disconnected")
  /\ ws' = CloseSocket(ws)
  /\ UNCHANGED <<torn, crashed>>

\* JSON.parse(event.data) throws: the exception leaves ws.onmessage before
\* onMessage is called; the browser reports it and the socket stays open
ParseFailure == UNCHANGED <<posts, stats, trendData, status, ws, torn, crashed>>

\* ws.onmessage on one frame: JSON.parse, then the handler.  A frame that does
\* not parse throws out of the callback before any setter is called.  In the
\* two-effect components a post without sentiment makes the stats updater
\* throw while rendering: the commit is abandoned, React unmounts the tree
\* and the effect cleanups run (ws.close()).
OnMessage(frame) ==
  /\ IF ~frame.valid
       THEN ParseFailure
       ELSE IF Throws(impl, frame)
         THEN /\ crashed' = Mounted
              /\ torn' = TRUE
              /\ ws' = IF Mounted THEN CloseSocket(ws) ELSE ws
              /\ UNCHANGED <<posts, stats, trendData, status>>
         ELSE /\ SetState(NextPosts(impl, posts, frame), NextStats(impl, stats, frame),
                          NextTrend(impl, trendData, frame), status)
              /\ UNCHANGED <<ws, torn, crashed>>

\* the channel delivers its next frame to an open socket
WsMessage ==
  \E frame \in Frames(Len(delivered) + 1) :
    /\ ws = "OPEN"
    /\ Len(delivered) < MaxMsgs
    /\ delivered' = Append(delivered, frame)
    /\ OnMessage(frame)
    /\ UNCHANGED <<impl, postsFetch, distFetch>>

\* ws.onerror: the connection failed; the close event follows.  Only the
\* sequenced component passes an onError callback
WsError ==
  /\ ws \in {"CONNECTING", "OPEN"}
  /\ ws' = "CLOSING"
  /\ SetState(posts, stats, trendData,
              IF impl = Sequenced THEN "disconnected" ELSE status)
  /\ UNCHANGED <<impl, postsFetch, distFetch, torn, crashed, delivered>>

\* ws.onclose: the server closed an open socket, or a closing one finished
WsClose ==
  /\ ws \in {"OPEN", "CLOSING"}
  /\ ws' = "CLOSED"
  /\ SetState(posts, stats, trendData, "disconnected")
  /\ UNCHANGED <<impl, postsFetch, distFetch, torn, crashed, delivered>>

\* the effect cleanup at unmount: if (ws) ws.close() in the sequenced component
\* (ws is still undefined while the snapshot is awaited), ws.close() otherwise
Teardown ==
  /\ ~torn
  /\ torn' = TRUE
  /\ ws' = IF ws = "none" THEN ws ELSE CloseSocket(ws)
  /\ UNCHANGED <<impl, posts, stats, trendData, status, postsFetch, distFetch,
                 crashed, delivered>>

Next ==
  \/ PostsFetchResolve
  \/ DistFetchResolve
  \/ PostsFetchReject
  \/ DistFetchReject
  \/ WsOpen
  \/ WsMessage
  \/ WsError
  \/ WsClose
  \/ Teardown

Spec == Init /\ [][Next]_vars

(***************************************************************************)
(* Long runs of one kind of frame.  They start in the state of a session   *)
(* whose snapshot has loaded and whose socket is open, before any frame    *)
(* (each of them a reachable state of Spec), and deliver frames of one     *)
(* kind only, so that the windows fill up.                                 *)
(***************************************************************************)
\* {total: 5, distribution: {positive: 5}}
LoadedDistBody == DistBody(5, NoNum, TRUE)

Streaming(i, postsBody) ==
  /\ impl = i
  /\ posts = SeedPosts(postsBody)
  /\ stats = SeedStats(i, LoadedDistBody)
  /\ trendData = <<>>
  /\ status = "connected"
  /\ postsFetch = Promise("resolved", postsBody)
  /\ distFetch = Promise("resolved", LoadedDistBody)
  /\ ws = "OPEN"
  /\ torn = FALSE
  /\ crashed = FALSE
  /\ delivered = <<>>

InitStream == \E i \in Impls : \E body \in PostsResponses : Streaming(i, body)

\* the n-th post of a long run: the stream alternates between the two keys
StreamSentiment(n) ==
  IF n % 2 = 1 THEN Sentiment(Undefined, "negative", 90)
               ELSE Sentiment("positive", Undefined, 80)

\* the n-th tick of a long run: the three shapes in turn
StreamShape(n) ==
  CASE n % 3 = 1 -> "last_minute"
    [] n % 3 = 2 -> "data_timestamp"
    [] OTHER -> "contract"

\* the channel delivers one more new_post frame
FeedPush ==
  /\ ws = "OPEN"
  /\ Len(delivered) < MaxPush
  /\ delivered' = Append(delivered,
                         NewPostFrame(Len(delivered) + 1, StreamSentiment(Len(delivered) + 1)))
  /\ OnMessage(delivered'[Len(delivered')])
  /\ UNCHANGED <<impl, postsFetch, distFetch>>

\* the channel delivers one more metrics_update frame
TrendTick ==
  /\ ws = "OPEN"
  /\ Len(delivered) < MaxTicks
  /\ delivered' = Append(delivered,
                         MetricsFrame(Len(delivered) + 1, StreamShape(Len(delivered) + 1)))
  /\ OnMessage(delivered'[Len(delivered')])
  /\ UNCHANGED <<impl, postsFetch, distFetch>>

SpecFeed == InitStream /\ [][FeedPush]_vars

SpecTrend == InitStream /\ [][TrendTick]_vars

(***************************************************************************)
(* Claims.                                                                 *)
(***************************************************************************)
\* the parsed new_post frames among the first n delivered
NewPosts(n) ==
  {k \in 1..n : delivered[k].valid /\ delivered[k].type = "new_post"}

\* a frame whose handler calls a setter
Mutates(i, frame) ==
  /\ frame.valid
  /\ \/ frame.type = "new_post"
     \/ frame.type = "metrics_update" /\ i # DashboardJsx

\* both snapshot promises have resolved
SnapshotLoaded == postsFetch.state = "resolved" /\ distFetch.state = "resolved"

\* one of the snapshot promises has rejected
SnapshotRejected == postsFetch.state = "rejected" \/ distFetch.state = "rejected"

\* the three slices the message handler writes
Slices(p, d, t) == [posts |-> p, stats |-> d, trendData |-> t]

RECURSIVE Replay(_, _, _)
\* the slices after the sequenced handler ran on frames[1..n], in that order,
\* starting from the slices s (a frame that does not parse changes nothing)
Replay(s, frames, n) ==
  IF n = 0 THEN s
  ELSE LET r == Replay(s, frames, n - 1)
       IN IF frames[n].valid
            THEN Slices(NextPosts(Sequenced, r.posts, frames[n]),
                        NextStats(Sequenced, r.stats, frames[n]),
                        NextTrend(Sequenced, r.trendData, frames[n]))
            ELSE r

\* C1: in the sequenced Dashboard the channel exists only once both snapshot
\* fetches have resolved, no frame is delivered before that, and in a mounted
\* session feed, distribution and trend series are the snapshot seed with the
\* handlers of the delivered frames applied on top of it in arrival order
\* (so the seed is never applied after a stream mutation, nor lost to one).
C1_SeedBeforeStream ==
  impl = Sequenced =>
    /\ ws = "none" => delivered = <<>>
    /\ ws # "none" => SnapshotLoaded
    /\ (ws # "none" /\ Mounted) =>
         Slices(posts, stats, trendData)
           = Replay(Slices(SeedPosts(postsFetch.value),
                           SeedStats(Sequenced, distFetch.value), <<>>),
                    delivered, Len(delivered))

\* C1 witness: a mounted sequenced session whose seeded feed and distribution
\* have since been changed by two stream events
C1_Witness ==
  /\ impl = Sequenced
  /\ Mounted
  /\ Len(delivered) = 2
  /\ Mutates(impl, delivered[1]) /\ delivered[2].type = "new_post"
  /\ SeedPosts(postsFetch.value) # <<>>
  /\ posts # SeedPosts(postsFetch.value)
  /\ stats # SeedStats(Sequenced, distFetch.value)

\* the number of new_post frames delivered so far
PostCount == Cardinality(NewPosts(Len(delivered)))

\* C2: in the two-effect Dashboards, once the distribution snapshot has
\* resolved with a total, the total of a mounted session is the snapshot's
\* total plus the number of new_post events applied so far, whatever the
\* order of the response and the events.
C2_NoLostIncrement ==
  (/\ impl \in TwoEffect
   /\ Mounted
   /\ distFetch.state = "resolved"
   /\ SeedStats(impl, distFetch.value).total_posts # NoNum) =>
    stats.total_posts = SeedStats(impl, distFetch.value).total_posts + PostCount

\* C3: in the sequenced Dashboard, once a snapshot fetch has rejected, no
\* channel exists (and none is ever created, this being an invariant), no
\* frame is delivered, and the status of a mounted session is disconnected.
C3_NoConnectAfterFailure ==
  (impl = Sequenced /\ SnapshotRejected) =>
    /\ ws = "none"
    /\ delivered = <<>>
    /\ Mounted => status = "disconnected"

\* C3 witness: the distribution fetch rejected after the posts fetch had
\* succeeded, and the mounted session shows disconnected
C3_Witness ==
  /\ impl = Sequenced
  /\ Mounted
  /\ postsFetch.state = "resolved"
  /\ distFetch.state = "rejected"
  /\ status = "disconnected"

\* C4: the snapshot load is all-or-nothing: when one of the two fetches has
\* failed, neither the feed nor the distribution has been seeded (before any
\* stream event, both still hold their initial values).
C4_AllOrNothing ==
  (SnapshotRejected /\ delivered = <<>>) =>
    /\ posts = <<>>
    /\ stats = InitialStats(impl)

\* C5: the feed never holds more than 50 posts.
C5_FeedBounded == Len(posts) <= FeedCapacity

\* the posts of the first n delivered frames, newest first
Pushed(n) == [k \in 1..n |-> delivered[n + 1 - k].data]

\* C6: after n >= 1 new_post events on a seeded feed, the feed is the
\* min(50, n + initial length) most recent items, newest first; 60 posts
\* pushed onto an empty feed leave 50, from the 60th down to the 11th.
C6_FeedHoldsMostRecent ==
  Len(delivered) >= 1 =>
    LET n == Len(delivered)
        seed == SeedPosts(postsFetch.value)
        all == Pushed(n) \o seed
    IN /\ posts = SubSeq(all, 1, Min(FeedCapacity, n + Len(seed)))
       /\ (n = 60 /\ seed = <<>>) =>
            /\ Len(posts) = 50
            /\ posts[1].id = 60
            /\ posts[50].id = 11

\* C6 witness: 60 posts have been pushed onto an empty feed, which is full
C6_Witness ==
  /\ Len(delivered) = 60
  /\ SeedPosts(postsFetch.value) = <<>>
  /\ Len(posts) = FeedCapacity

\* C7: in the sequenced Dashboard and in part_000, after n metrics_update
\* events the trend series holds the points of the last min(20, n) ticks in
\* arrival order; 25 ticks leave 20 points, the 6th tick's first.
C7_TrendHoldsLastTicks ==
  impl \in {Sequenced, Part000} =>
    LET n == Len(delivered)
        points == [k \in 1..n |-> MetricsPoint(impl, delivered[k])]
    IN /\ Len(trendData) <= TrendCapacity
       /\ trendData = SubSeq(points, n - Min(TrendCapacity, n) + 1, n)
       /\ n = 25 =>
            /\ Len(trendData) = 20
            /\ trendData[1] = MetricsPoint(impl, delivered[6])
            /\ trendData[20] = MetricsPoint(impl, delivered[25])

\* C7 witness: 25 ticks have arrived, the series is full and its oldest point
\* is no longer the first tick's
C7_Witness ==
  /\ impl \in {Sequenced, Part000}
  /\ Len(delivered) = 25
  /\ Len(trendData) = TrendCapacity
  /\ trendData[1] # MetricsPoint(impl, delivered[1])

\* the new_post frames delivered so far whose post carries label l
PostsLabelled(l) ==
  {k \in NewPosts(Len(delivered)) : FeedLabel(delivered[k].data) = l}

\* C8: in the sequenced Dashboard, from a distribution seeded with total T
\* and counts c, after n new_post events the total is T + n and every count
\* is (c[l] or 0) plus the number of events whose post has label l.
C8_CountsFollowLabels ==
  (impl = Sequenced /\ Mounted /\ ws # "none" /\ distFetch.value.total # NoNum) =>
    /\ stats.total = distFetch.value.total + PostCount
    /\ \A l \in Keys :
         OrZero(stats.distribution[l])
           = OrZero(distFetch.value.distribution[l]) + Cardinality(PostsLabelled(l))

\* the step in which the handler of a new_post frame updates the distribution
\* (sequenced Dashboard and Dashboard.jsx)
CountsNewPost ==
  /\ impl \in {Sequenced, DashboardJsx}
  /\ Mounted
  /\ Len(delivered') = Len(delivered) + 1
  /\ delivered'[Len(delivered')].valid
  /\ delivered'[Len(delivered')].type = "new_post"
  /\ ~Throws(impl, delivered'[Len(delivered')])

\* C9: every new_post event increments the count of the label resolved from
\* whichever of label / sentiment_label the post carries (neutral when it
\* carries neither), which is the label the feed shows for the post.
C9_CountedUnderFeedLabel ==
  [][CountsNewPost =>
       LET l == FeedLabel(delivered'[Len(delivered')].data)
       IN stats'.distribution[l] = OrZero(stats.distribution[l]) + 1]_vars

\* the total a distribution response carries, under either key
ResponseTotal(body) == IF body.total # NoNum THEN body.total ELSE body.total_posts

\* the distribution snapshot has been applied to the state
StatsSeeded ==
  /\ Mounted
  /\ distFetch.state = "resolved"
  /\ IF impl = Sequenced THEN ws # "none" ELSE delivered = <<>>

\* C10: once the distribution snapshot is seeded, the total that is displayed
\* and that new_post events increment is the response's total, whether the
\* response carries it as total or as total_posts.
C10_TotalUnderEitherKey ==
  StatsSeeded =>
    DisplayedTotal(impl, stats) = ResponseTotal(distFetch.value) + PostCount

\* the step in which the channel delivers a frame; the frame delivered
Delivers == Len(delivered') = Len(delivered) + 1
Arriving == delivered'[Len(delivered')]

\* the four state slices of the component
StateSlices == <<posts, stats, trendData, status>>

\* C11: a parsed message whose type is neither new_post nor metrics_update
\* leaves feed, distribution, trend series and status unchanged.
C11_UnknownTypeIsNoOp ==
  [][(/\ Delivers
      /\ Arriving.valid
      /\ Arriving.type \notin {"new_post", "metrics_update"})
       => UNCHANGED StateSlices]_vars

\* C11 witness: a mounted, seeded sequenced session has just received a
\* message of another type on its open socket
C11_Witness ==
  /\ impl = Sequenced
  /\ Mounted
  /\ ws = "OPEN"
  /\ posts # <<>>
  /\ Len(delivered) >= 1
  /\ delivered[Len(delivered)].valid
  /\ delivered[Len(delivered)].type \notin {"new_post", "metrics_update"}

\* C12: in the sequenced Dashboard the status starts as connecting; it
\* becomes connected only in the step in which the socket opens, and it
\* becomes disconnected only on a socket error, a socket close or a rejected
\* snapshot fetch; in a mounted session the open takes connecting to
\* connected and the close of the open socket takes connected to
\* disconnected, so that open-then-close shows connecting, connected,
\* disconnected.
C12_StatusLifecycle ==
  /\ impl = Sequenced => status = "connecting"
  /\ [][impl = Sequenced =>
          /\ status' \in {"connecting", "connected", "disconnected"}
          /\ (status' # status /\ status' = "connecting") => FALSE
          /\ (status' # status /\ status' = "connected") =>
               (ws = "CONNECTING" /\ ws' = "OPEN")
          /\ (status' # status /\ status' = "disconnected") =>
               \/ ws \in {"CONNECTING", "OPEN"} /\ ws' = "CLOSING"
               \/ ws \in {"OPEN", "CLOSING"} /\ ws' = "CLOSED"
               \/ ~SnapshotRejected /\ SnapshotRejected'
          /\ (Mounted /\ ws = "CONNECTING" /\ ws' = "OPEN") =>
               (status = "connecting" /\ status' = "connected")
          /\ (Mounted /\ ws = "OPEN" /\ ws' = "CLOSED") =>
               (status = "connected" /\ status' = "disconnected")]_vars

\* C12 witness: a mounted sequenced session whose socket opened, delivered a
\* frame and was then closed by the server shows disconnected
C12_Witness ==
  /\ impl = Sequenced
  /\ Mounted
  /\ ws = "CLOSED"
  /\ Len(delivered) >= 1
  /\ status = "disconnected"

\* C13: disconnected is terminal: in each Dashboard implementation, once
\* the status is disconnected no later event changes it to connecting or
\* connected.
C13_DisconnectedIsTerminal ==
  [][(impl \in {Sequenced, DashboardJsx} /\ status = "disconnected")
       => status' = "disconnected"]_vars

\* the step in which the browser fires the socket's close event (ws.onclose)
CloseEvent == ws # "CLOSED" /\ ws' = "CLOSED"

\* the cleanup has run and has called close() on the socket
ClosedByTeardown == torn /\ ws \in {"CLOSING", "CLOSED"}

\* C14: after the teardown's call to close() has returned, no further
\* message callback and no close callback is delivered, and no state slice
\* changes.
C14_NoCallbackAfterTeardown ==
  [][(impl \in {Sequenced, DashboardJsx} /\ ClosedByTeardown) =>
       (~Delivers /\ ~CloseEvent /\ UNCHANGED StateSlices)]_vars

\* some frame delivered so far did not parse
SawMalformed == \E k \in 1..Len(delivered) : ~delivered[k].valid

DistributionSeeded ==
  IF impl = Sequenced THEN ws # "none" ELSE distFetch.state = "resolved"

\* C16: after the snapshot seed no step (new_post, metrics_update, unknown
\* message, status transition) lowers a count or the total; a missing count
\* reads as 0.
C16_CountsNeverDecrease ==
  [][DistributionSeeded =>
       /\ \A l \in DOMAIN stats.distribution :
            OrZero(stats'.distribution[l]) >= OrZero(stats.distribution[l])
       /\ DisplayedTotal(impl, stats') >= DisplayedTotal(impl, stats)]_vars

\* C16 witness: a mounted sequenced session seeded with positive = 5 has
\* counted two posts under other labels and lost its socket; positive still
\* reads 5 and the total has grown by two
C16_Witness ==
  /\ impl = Sequenced
  /\ Mounted
  /\ distFetch.state = "resolved"
  /\ distFetch.value.distribution["positive"] = 5
  /\ PostCount = 2
  /\ ws = "CLOSED"
  /\ stats.distribution["positive"] = 5
  /\ stats.total = OrZero(distFetch.value.total) + 2

\* C17: the slices DistributionChart derives from a distribution are exactly
\* three, one for each of positive, negative and neutral, a missing count
\* showing as 0.
C17_ThreeFixedSlices ==
  (impl = Sequenced /\ Mounted /\ DistributionSeeded) =>
    /\ {s.name : s \in ChartSlices(stats.distribution)} = Labels
    /\ \A s \in ChartSlices(stats.distribution) :
         s.value = OrZero(stats.distribution[s.name])

\* a metrics_update of the push-stream contract: the counts are directly
\* under data; its timestamp (at the top level or under data)
ContractMetrics(frame) ==
  /\ frame.valid
  /\ frame.type = "metrics_update"
  /\ frame.data.positive # NoNum
EventTimestamp(frame) ==
  IF frame.timestamp # NoNum THEN frame.timestamp ELSE frame.data.timestamp

\* C18: for a metrics_update of the push-stream contract, the point appended
\* to the trend series by the sequenced Dashboard and by part_000 carries the
\* event's positive, negative and neutral counts and a time derived from the
\* event's timestamp.
C18_TrendPointFromContract ==
  [][(/\ impl \in {Sequenced, Part000}
      /\ Mounted
      /\ Delivers
      /\ ContractMetrics(Arriving)) =>
       /\ trendData' # <<>>
       /\ LET point == trendData'[Len(trendData')]
          IN /\ point.positive = Arriving.data.positive
             /\ point.negative = Arriving.data.negative
             /\ point.neutral = Arriving.data.neutral
             /\ point.time \in {TimeHM(EventTimestamp(Arriving)),
                                TimeHMS(EventTimestamp(Arriving))}
             /\ point.time # InvalidDate]_vars

\* C19: the message handler of the sequenced Dashboard and of Dashboard.jsx
\* raises for no parsed message (new_post, metrics_update or another type),
\* a new_post without a sentiment field and a state without a counts mapping
\* included: the component stays mounted and the next state is well formed
\* (bounded feed and trend series, the post counted once).
C19_HandlerNeverRaises ==
  [][(/\ impl \in {Sequenced, DashboardJsx}
      /\ Mounted
      /\ Delivers
      /\ Arriving.valid) =>
       /\ ~crashed'
       /\ Mounted'
       /\ Len(posts') <= FeedCapacity
       /\ Len(trendData') <= TrendCapacity
       /\ Arriving.type = "new_post" =>
            DisplayedTotal(impl, stats') = DisplayedTotal(impl, stats) + 1]_vars

\* the delivery step put the arriving post at the head of the feed
Prepended == posts' # posts /\ posts'[1] = Arriving.data

\* the delivery step added one to the total and to one count
Counted ==
  /\ DisplayedTotal(impl, stats') = DisplayedTotal(impl, stats) + 1
  /\ \E l \in DOMAIN stats.distribution :
       /\ stats'.distribution[l] = OrZero(stats.distribution[l]) + 1
       /\ \A k \in DOMAIN stats.distribution \ {l} :
            stats'.distribution[k] = stats.distribution[k]

\* C20: a new_post updates feed and distribution in one step: the state
\* after the callback has the post prepended exactly when it has the total
\* and one count incremented, and a mounted component that does not raise
\* has both.
C20_FeedAndCountTogether ==
  [][(Delivers /\ Arriving.valid /\ Arriving.type = "new_post") =>
       /\ Prepended <=> Counted
       /\ Prepended <=> stats' # stats
       /\ (Mounted /\ ~Throws(impl, Arriving)) => Prepended]_vars

\* C20 witness: a mounted sequenced session seeded with a total has received
\* two posts: the newest heads the feed and the total is the seed's plus two
C20_Witness ==
  /\ impl = Sequenced
  /\ Mounted
  /\ Len(delivered) = 2
  /\ PostCount = 2
  /\ posts[1] = delivered[2].data
  /\ posts[2] = delivered[1].data
  /\ distFetch.value.total # NoNum
  /\ stats.total = distFetch.value.total + 2

RECURSIVE SumOver(_, _)
\* the sum of the counts under the given keys, a missing count reading as 0
SumOver(counts, keys) ==
  IF keys = {}
    THEN 0
    ELSE LET k == CHOOSE x \in keys : TRUE
         IN  OrZero(counts[k]) + SumOver(counts, keys \ {k})

\* sum(counts.values()) and the difference total - sum(counts)
SumCounts(counts) == SumOver(counts, DOMAIN counts)
Drift(i, s) == DisplayedTotal(i, s) - SumCounts(s.distribution)

\* C21: every message delivery (new_post, metrics_update, any other)
\* preserves total - sum(counts); and when the distribution snapshot that was
\* seeded has total = sum(counts), the state has total = sum(counts) whatever
\* events were applied.
C21_TotalTracksCounts ==
  /\ []((distFetch.state = "resolved" =>
           Drift(impl, SeedStats(impl, distFetch.value)) = 0)
          => Drift(impl, stats) = 0)
  /\ [][Delivers => Drift(impl, stats') = Drift(impl, stats)]_vars

\* C21 witness: a mounted sequenced session seeded with total 5 and
\* positive 5 has counted two posts: total and sum of counts are both 7
C21_Witness ==
  /\ impl = Sequenced
  /\ Mounted
  /\ ws = "OPEN"
  /\ Drift(impl, SeedStats(impl, distFetch.value)) = 0
  /\ PostCount = 2
  /\ stats.total = 7
  /\ SumCounts(stats.distribution) = 7

\* C22: in the sequenced Dashboard and in part_000 a metrics_update leaves
\* the feed and the distribution unchanged, a new_post leaves the trend
\* series unchanged, and neither changes the status.
C22_HandlersKeepOtherSlices ==
  [][(impl \in {Sequenced, Part000} /\ Delivers /\ Arriving.valid) =>
       /\ Arriving.type = "metrics_update" => UNCHANGED <<posts, stats, status>>
       /\ Arriving.type = "new_post" => UNCHANGED <<trendData, status>>]_vars

\* C22 witness: a mounted part_000 session has applied a new_post and then a
\* metrics_update: one post in the feed, one point in the series, connected
C22_Witness ==
  /\ impl = Part000
  /\ Mounted
  /\ Len(delivered) = 2
  /\ delivered[1].valid /\ delivered[1].type = "new_post"
  /\ delivered[2].valid /\ delivered[2].type = "metrics_update"
  /\ posts # <<>>
  /\ posts[1] = delivered[1].data
  /\ Len(trendData) = 1
  /\ status = "connected"

\* the feed holds the snapshot's posts below the stream's posts, and the
\* total is the snapshot's plus the stream's posts
SeedInState ==
  LET seed == SeedPosts(postsFetch.value)
      n == PostCount
  IN  /\ Len(posts) >= Min(n + Len(seed), FeedCapacity)
      /\ Len(posts) <= n + Len(seed)
      /\ \A k \in 1..(Len(posts) - n) : posts[n + k] = seed[k]
      /\ DisplayedTotal(impl, stats)
           = OrZero(SeedStats(impl, distFetch.value).total) + n
      /\ \A l \in DOMAIN stats.distribution :
           OrZero(stats.distribution[l])
             >= OrZero(SeedStats(impl, distFetch.value).distribution[l])

\* C23: in the sequenced Dashboard, whenever the status is connected both
\* snapshot fetches have resolved and their data is seeded in feed and
\* distribution; the status is never connected while a snapshot fetch is
\* pending or after one has rejected.
C23_ConnectedImpliesSeeded ==
  impl = Sequenced =>
    /\ status = "connected" => (SnapshotLoaded /\ ws # "none" /\ SeedInState)
    /\ (SnapshotRejected \/ ~SnapshotLoaded) => status # "connected"

\* C23 witness: a mounted sequenced session is connected, its feed is one
\* stream post above the posts of the snapshot
C23_Witness ==
  /\ impl = Sequenced
  /\ Mounted
  /\ status = "connected"
  /\ ws = "OPEN"
  /\ PostCount = 1
  /\ Len(SeedPosts(postsFetch.value)) >= 2
  /\ posts[2] = SeedPosts(postsFetch.value)[1]
  /\ stats.distribution["positive"] >= 5

\* C24: in the sequenced Dashboard, when the cleanup runs while the snapshot
\* fetch is pending, no channel is opened afterwards, and no channel is
\* connecting or open once the component has been torn down.
C24_NoChannelAfterTeardown ==
  /\ []((impl = Sequenced /\ torn) => ws \notin {"CONNECTING", "OPEN"})
  /\ [][(impl = Sequenced /\ torn /\ ws = "none") => ws' = "none"]_vars

\* the keys of the counts mapping that hold a count
CountKeys(counts) == {k \in DOMAIN counts : counts[k] # NoNum}

\* C25: after any sequence of snapshot seed and stream events, in the
\* sequenced Dashboard and in Dashboard.jsx, the keys of the counts mapping
\* are among positive, negative and neutral: no new_post creates a count
\* under another key.
C25_CanonicalCountKeys ==
  impl \in {Sequenced, DashboardJsx} => CountKeys(stats.distribution) \subseteq Labels

\* the sequenced Dashboard under the fairness the runtime gives: each snapshot
\* fetch eventually settles (resolves or rejects), and a socket that exists
\* eventually fires its open, error or close event
FetchesSettle ==
  /\ WF_vars(PostsFetchResolve \/ PostsFetchReject)
  /\ WF_vars(DistFetchResolve \/ DistFetchReject)
SocketFires == WF_vars(WsOpen \/ WsError \/ WsClose)
SpecLive == Mount(Sequenced) /\ [][Next]_vars /\ FetchesSettle /\ SocketFires

\* C26: in the sequenced Dashboard, under that fairness, a session that is
\* not torn down eventually leaves connecting: its status becomes connected
\* or disconnected.
C26_EventuallyLeavesConnecting ==
  <>(torn \/ status \in {"connected", "disconnected"})

\* C26 witness: a mounted session went through connecting and connected and
\* is now disconnected after the close of its socket
C26_Witness ==
  /\ impl = Sequenced
  /\ Mounted
  /\ SnapshotLoaded
  /\ ws = "CLOSED"
  /\ delivered = <<>>
  /\ status = "disconnected"

====
